---- MODULE Spec2Model ----
(***************************************************************************)
(* CameraManager (src/MainCode/camera_manager.py): the camera pipeline     *)
(* supervisor of the rover.  One caller thread runs start_stream,          *)
(* stop_stream and restart_stream; every successful start_stream creates   *)
(* a watchdog thread running _watchdog.  The threads share the manager's   *)
(* fields without a lock, so each thread advances one step at a time, a    *)
(* step ending at every call that can block or hand the interpreter to     *)
(* another thread (sleep, wait, Popen, join, Event.set/clear, poll).       *)
(* Steps that read or write nothing another thread can see in between are  *)
(* taken together with the step before them.                               *)
(*                                                                         *)
(* A list object is named by the launch that created it (0 is the empty    *)
(* list made by __init__); the only mutation of a list object is clear(),  *)
(* so a list holds either the processes of its launch or nothing.  A       *)
(* process is named by its launch and its stage (1 or 2).                  *)
(***************************************************************************)
EXTENDS Integers, Sequences, FiniteSets, TLC

MAX_RECONNECT_ATTEMPTS == 5

\* Bounds of the model: launches that spawn a process, watchdog threads
\* created, public calls made by the caller.  Spec runs the program within
\* these bounds; SpecWide runs the same program with one more of each, which
\* the races between two watchdogs and the caller need.
MaxLaunch == 2
MaxWatchdogs == 1
MaxCalls == 2

Limits == [launches |-> MaxLaunch, watchdogs |-> MaxWatchdogs,
           calls |-> MaxCalls]
WideLimits == [launches |-> MaxLaunch + 1, watchdogs |-> MaxWatchdogs + 1,
               calls |-> MaxCalls + 1]

CameraType == {"PI_CAMERA", "USB_CAMERA", "NONE"}

Caller == 0
Watchdogs == 1..WideLimits.watchdogs
Threads == {Caller} \cup Watchdogs
Launches == 1..WideLimits.launches
ListIds == 0..WideLimits.launches

VARIABLES
    camera_type,          \* self.camera_type
    auto_reconnect,       \* self.auto_reconnect
    processes,            \* self._processes: the list object it is bound to
    cleared,              \* per list object: clear() has been called on it
    pstate,               \* per launch and stage: "none", "running", "exited"
    nextLaunch,           \* launches that have spawned a process so far
    stop_event,           \* self._stop_event.is_set()
    reconnect_attempts,   \* self._reconnect_attempts
    watchdog_thread,      \* self._watchdog_thread: a thread, or 0 for None
    nextThread,           \* watchdog threads created so far
    pc,                   \* per thread: where it is
    itList,               \* per thread: list object its for loop iterates
    itIdx,                \* per thread: position of that for loop
    building,             \* per thread: launch whose stage 1 it has spawned
    op,                   \* the caller's current (or last) public call
    ctx,                  \* caller only: _terminate_processes called from
    ret,                  \* outcome of the caller's last call
    snap,                 \* history: list object non-empty at the stop call
    prior,                \* history: <<op, ret>> of the call before a stop
    relaunches,           \* history: watchdog relaunches since start_stream
    calls,                \* history: public calls made so far
    path,                 \* the CLI names shutil.which finds on the search path
    devnodes,             \* per name under /dev: "absent", "char" or "other"
    params,               \* target_ip, target_port, device, width, height,
                          \* fps, bitrate of the manager
    called,               \* the module-level function called last, or "none"
    out,                  \* what that call returned or raised
    seen,                 \* the search path as it was at that call
    repeated,             \* that call followed a call of the same function
    reads,                \* what get_distance, is_obstacle, capture_frame
                          \* return or raise when called now
    detection,            \* the last detect_dune call: arguments, the sensor
                          \* outcomes it met, what it returned or raised
    running,              \* FrameGrabber._running
    thread,               \* FrameGrabber._thread: a capture thread, or Free
                          \* for None
    latest,               \* FrameGrabber.frame: 0 for None, else the number
                          \* of the frame stored last
    lock,                 \* FrameGrabber._lock: its holder, or Free
    gpc,                  \* per grabber thread: where it is
    glocal,               \* per client: the local variable frame
    chunk,                \* per client: the chunk generate_mjpeg yielded last
    requests,             \* per slot of the HTTP server: the request in it
    session               \* the pipeline cam_manager runs for the server

host == <<path, devnodes, params>>
lastcall == <<called, out, seen, repeated>>
dune == <<reads, detection>>
grabber == <<running, thread, latest, lock, gpc, glocal, chunk>>
server == <<requests, session>>
elsewhere == <<dune, grabber, server>>
config == <<camera_type, auto_reconnect, host, lastcall, elsewhere>>
fields == <<processes, cleared, pstate, nextLaunch, stop_event,
            reconnect_attempts, watchdog_thread, nextThread>>
locals == <<itList, itIdx, building>>
callerv == <<op, ctx, ret>>
history == <<snap, prior, relaunches, calls>>
manager == <<fields, pc, locals, callerv, history>>
vars == <<config, fields, pc, locals, callerv, history>>

----------------------------------------------------------------------------
\* Helpers

NStages == IF camera_type = "PI_CAMERA" THEN 2 ELSE 1

\* len() of a list object
ListLen(l) == IF cleared[l] THEN 0 ELSE NStages

\* proc.poll() is None
Alive(l, s) == pstate[l][s] = "running"

\* CameraManager.is_streaming: any handle of the bound list is alive
is_streaming == \E i \in 1..ListLen(processes) : Alive(processes, i)

Goto(t, where) == pc' = [pc EXCEPT ![t] = where]

ResetIter(t) ==
    /\ itList' = [itList EXCEPT ![t] = 0]
    /\ itIdx' = [itIdx EXCEPT ![t] = 1]

----------------------------------------------------------------------------
\* The module-level functions: detection helpers and pipeline builders

DEFAULT_WIDTH == 1280
DEFAULT_HEIGHT == 720
DEFAULT_FPS == 30
DEFAULT_BITRATE == 500
DEFAULT_PORT == 5000
DEFAULT_HOST == "127.0.0.1"

\* The external commands the module looks up or runs
Tools == {"rpicam-vid", "libcamera-vid", "gst-launch-1.0"}

\* Entries of /dev: one whose name matches video*, one whose name does not
DevNames == {"video0", "media0"}
DevKinds == {"absent", "char", "other"}

\* Values of the stream parameters the functions are applied to
TargetIps == {DEFAULT_HOST, "10.0.0.5"}
TargetPorts == {DEFAULT_PORT, 5600}
Devices == {"/dev/video0", "/dev/video2"}
Widths == {DEFAULT_WIDTH, 640}
Heights == {DEFAULT_HEIGHT, 480}
Rates == {DEFAULT_FPS, 15}
Bitrates == {DEFAULT_BITRATE, 400}

Params ==
    [target_ip : TargetIps, target_port : TargetPorts, device : Devices,
     width : Widths, height : Heights, fps : Rates, bitrate : Bitrates]

\* The defaults of CameraManager.__init__
DefaultParams ==
    [target_ip |-> DEFAULT_HOST, target_port |-> DEFAULT_PORT,
     device |-> "/dev/video0", width |-> DEFAULT_WIDTH,
     height |-> DEFAULT_HEIGHT, fps |-> DEFAULT_FPS,
     bitrate |-> DEFAULT_BITRATE]

\* A call returns a value, or raises; spawned counts the processes the call
\* has started by the time it ends.
Returns(v) ==
    [ok |-> TRUE, error |-> "", value |-> v, spawned |-> 0, steps |-> <<>>]

Raises(e) ==
    [ok |-> FALSE, error |-> e, value |-> <<>>, spawned |-> 0, steps |-> <<>>]

NothingCalled ==
    /\ called = "none"
    /\ out = Raises("")
    /\ seen = {}
    /\ repeated = FALSE

\* shutil.which(cmd) is not None
shutil_which(cmd) == cmd \in path

\* p.name matches the glob video*
GlobVideo(name) == Len(name) >= 5 /\ SubSeq(name, 1, 5) = "video"

\* _find_video_devices: the /dev/video* paths that are character devices
\* (the code sorts them; only their number and their names are used)
find_video_devices ==
    {"/dev/" \o n : n \in {m \in DevNames :
                              GlobVideo(m) /\ devnodes[m] = "char"}}

\* _get_rpicam_command that, with both candidates installed, passes over
\* rpicam-vid when the call before it has already built with rpicam-vid
get_rpicam_command_Alternating ==
    IF /\ shutil_which("rpicam-vid")
       /\ ~ /\ shutil_which("libcamera-vid")
            /\ called = "build_picamera_pipeline"
            /\ out.ok
            /\ out.value[1][1] = "rpicam-vid"
    THEN "rpicam-vid"
    ELSE IF shutil_which("libcamera-vid") THEN "libcamera-vid"
    ELSE "None"

\* _get_rpicam_command: rpicam-vid first, libcamera-vid second, else None
get_rpicam_command ==
    IF shutil_which("rpicam-vid") THEN "rpicam-vid"
    ELSE IF shutil_which("libcamera-vid") THEN "libcamera-vid"
    ELSE "None"

is_libcamera_available == get_rpicam_command # "None"

has_usb_camera == Cardinality(find_video_devices) > 0

\* detect_camera_type with the USB test made first
detect_camera_type_UsbFirst ==
    IF has_usb_camera THEN "USB_CAMERA"
    ELSE IF is_libcamera_available THEN "PI_CAMERA"
    ELSE "NONE"

detect_camera_type ==
    IF is_libcamera_available THEN "PI_CAMERA"
    ELSE IF has_usb_camera THEN "USB_CAMERA"
    ELSE "NONE"

\* build_picamera_pipeline: [libcamera_cmd, gst_cmd], or RuntimeError when
\* no Pi camera CLI is found
\* build_picamera_pipeline with a capture that ends after ten seconds
build_picamera_pipeline_TimedCapture(target_ip, target_port, width, height, fps) ==
    LET rpicam_cmd == get_rpicam_command
    IN  IF rpicam_cmd = "None"
        THEN Raises("RuntimeError: Neither rpicam-vid nor libcamera-vid found")
        ELSE Returns(<<
                 <<rpicam_cmd, "-t", "10000",
                   "--width", ToString(width),
                   "--height", ToString(height),
                   "--framerate", ToString(fps),
                   "--inline", "-n", "--codec", "h264", "--output", "-">>,
                 <<"gst-launch-1.0", "-e", "fdsrc", "!", "h264parse", "!",
                   "rtph264pay", "config-interval=1", "pt=96", "!",
                   "udpsink", "host=" \o target_ip,
                   "port=" \o ToString(target_port)>> >>)

build_picamera_pipeline(target_ip, target_port, width, height, fps) ==
    LET rpicam_cmd == get_rpicam_command
    IN  IF rpicam_cmd = "None"
        THEN Raises("RuntimeError: Neither rpicam-vid nor libcamera-vid found")
        ELSE Returns(<<
                 <<rpicam_cmd, "-t", "0",
                   "--width", ToString(width),
                   "--height", ToString(height),
                   "--framerate", ToString(fps),
                   "--inline", "-n", "--codec", "h264", "--output", "-">>,
                 <<"gst-launch-1.0", "-e", "fdsrc", "!", "h264parse", "!",
                   "rtph264pay", "config-interval=1", "pt=96", "!",
                   "udpsink", "host=" \o target_ip,
                   "port=" \o ToString(target_port)>> >>)

\* build_usb_camera_pipeline with host= and port= exchanged
build_usb_camera_pipeline_PortFirst(target_ip, target_port, device, width, height, fps, bitrate) ==
    Returns(<<"gst-launch-1.0", "-e",
              "v4l2src", "device=" \o device, "!",
              "video/x-raw,width=" \o ToString(width)
                  \o ",height=" \o ToString(height)
                  \o ",framerate=" \o ToString(fps) \o "/1", "!",
              "videoconvert", "!",
              "x264enc", "bitrate=" \o ToString(bitrate),
              "tune=zerolatency", "speed-preset=superfast", "!",
              "rtph264pay", "config-interval=1", "pt=96", "!",
              "udpsink", "port=" \o ToString(target_port),
              "host=" \o target_ip>>)

\* build_usb_camera_pipeline: one gst-launch-1.0 command
build_usb_camera_pipeline(target_ip, target_port, device, width, height, fps, bitrate) ==
    Returns(<<"gst-launch-1.0", "-e",
              "v4l2src", "device=" \o device, "!",
              "video/x-raw,width=" \o ToString(width)
                  \o ",height=" \o ToString(height)
                  \o ",framerate=" \o ToString(fps) \o "/1", "!",
              "videoconvert", "!",
              "x264enc", "bitrate=" \o ToString(bitrate),
              "tune=zerolatency", "speed-preset=superfast", "!",
              "rtph264pay", "config-interval=1", "pt=96", "!",
              "udpsink", "host=" \o target_ip,
              "port=" \o ToString(target_port)>>)

\* subprocess.Popen(cmd) raises FileNotFoundError when cmd[0] is not found
PopenFinds(cmd) == shutil_which(cmd[1])

\* The steps of _launch_pipeline that the operating system sees:
\* subprocess.Popen(cmd, stdin=..., stdout=...) and the close() of a pipe
\* handle of the supervisor.  "inherit" is Popen's default for a stream.
Popen(cmd, stdin, stdout) ==
    [call |-> "Popen", of |-> cmd[1], stdin |-> stdin, stdout |-> stdout]

StdoutOf(cmd) == "stdout of " \o cmd[1]

Close(handle) ==
    [call |-> "close", of |-> handle, stdin |-> "", stdout |-> ""]

\* _launch_pipeline closing the capture stage's output handle before the
\* streaming stage is spawned
launch_pipeline_ClosesEarly ==
    IF camera_type = "PI_CAMERA"
    THEN LET stages == build_picamera_pipeline(params.target_ip,
                           params.target_port, params.width, params.height,
                           params.fps)
             libcamera_cmd == stages.value[1]
             gst_cmd == stages.value[2]
         IN  IF ~stages.ok THEN stages
             ELSE IF ~PopenFinds(libcamera_cmd)
             THEN Raises("FileNotFoundError")
             ELSE IF ~PopenFinds(gst_cmd)
             THEN [Raises("FileNotFoundError") EXCEPT
                      !.spawned = 1,
                      !.steps = <<Popen(libcamera_cmd, "inherit", "PIPE"),
                                  Close(StdoutOf(libcamera_cmd))>>]
             ELSE [Returns(stages.value) EXCEPT
                      !.spawned = 2,
                      !.steps = <<Popen(libcamera_cmd, "inherit", "PIPE"),
                                  Close(StdoutOf(libcamera_cmd)),
                                  Popen(gst_cmd, StdoutOf(libcamera_cmd),
                                        "inherit")>>]
    ELSE IF camera_type = "USB_CAMERA"
    THEN LET cmd == build_usb_camera_pipeline(params.target_ip,
                        params.target_port, params.device, params.width,
                        params.height, params.fps, params.bitrate)
         IN  IF ~PopenFinds(cmd.value)
             THEN Raises("FileNotFoundError")
             ELSE [Returns(<<cmd.value>>) EXCEPT
                      !.spawned = 1,
                      !.steps = <<Popen(cmd.value, "inherit", "inherit")>>]
    ELSE Raises("RuntimeError: Unsupported camera type")

\* _launch_pipeline on a manager that holds no handle, as far as the builders
\* and the search path decide it: the builder is called, then each stage is
\* spawned in turn, the capture stage with stdout=PIPE and the streaming
\* stage with stdin=libcamera_proc.stdout, and libcamera_proc.stdout is
\* closed.
launch_pipeline ==
    IF camera_type = "PI_CAMERA"
    THEN LET stages == build_picamera_pipeline(params.target_ip,
                           params.target_port, params.width, params.height,
                           params.fps)
             libcamera_cmd == stages.value[1]
             gst_cmd == stages.value[2]
         IN  IF ~stages.ok THEN stages
             ELSE IF ~PopenFinds(libcamera_cmd)
             THEN Raises("FileNotFoundError")
             ELSE IF ~PopenFinds(gst_cmd)
             THEN [Raises("FileNotFoundError") EXCEPT
                      !.spawned = 1,
                      !.steps = <<Popen(libcamera_cmd, "inherit", "PIPE")>>]
             ELSE [Returns(stages.value) EXCEPT
                      !.spawned = 2,
                      !.steps = <<Popen(libcamera_cmd, "inherit", "PIPE"),
                                  Popen(gst_cmd, StdoutOf(libcamera_cmd),
                                        "inherit"),
                                  Close(StdoutOf(libcamera_cmd))>>]
    ELSE IF camera_type = "USB_CAMERA"
    THEN LET cmd == build_usb_camera_pipeline(params.target_ip,
                        params.target_port, params.device, params.width,
                        params.height, params.fps, params.bitrate)
         IN  IF ~PopenFinds(cmd.value)
             THEN Raises("FileNotFoundError")
             ELSE [Returns(<<cmd.value>>) EXCEPT
                      !.spawned = 1,
                      !.steps = <<Popen(cmd.value, "inherit", "inherit")>>]
    ELSE Raises("RuntimeError: Unsupported camera type")

----------------------------------------------------------------------------
\* dune_detection.detect_dune.  Confidences are counted in thousandths and
\* distances in centimetres.

Milli == 1000

Max2(a, b) == IF a >= b THEN a ELSE b
Min2(a, b) == IF a <= b THEN a ELSE b

\* _clamp01: max(0.0, min(1.0, x))
clamp01(x) == Max2(0, Min2(Milli, x))

\* A float: float("inf"), or a finite number of centimetres
Inf == [finite |-> FALSE, cm |-> 0]
Finite(cm) == [finite |-> TRUE, cm |-> cm]
Less(d, threshold) == d.finite /\ d.cm < threshold

\* A sensor function returns a value, or raises and leaves the placeholder.
Reading(v) == [ok |-> TRUE, value |-> v]
Failed(placeholder) == [ok |-> FALSE, value |-> placeholder]

\* What capture_frame can return: an image of a mean brightness (0..255) and
\* a standard deviation, an array of size 0, an object numpy cannot convert,
\* and an array whose mean() raises.
Frames ==
    [kind : {"image"}, mean : {51, 255}, std : {0, 32, 128}]
        \cup {[kind |-> k, mean |-> 0, std |-> 0] :
                 k \in {"empty", "unconvertible", "ragged"}}

NoFrame == [kind |-> "None", mean |-> 0, std |-> 0]

\* analyze_frame
analyze_frame(frame) ==
    IF frame.kind = "unconvertible" THEN Reading(400)
    ELSE IF frame.kind = "empty" THEN Reading(0)
    ELSE IF frame.kind = "ragged" THEN Failed(0)
    ELSE LET confidence == (Milli * frame.mean) \div 255
             texture_factor == Milli - clamp01((Milli * frame.std) \div 64)
         IN  Reading(clamp01((6 * confidence + 4 * texture_factor) \div 10))

DistancesCm == {50, 100, 250}
Thresholds == {100, 200}

\* The outcomes of the three sensor functions
SensorReads ==
    [ultrasonic : {Failed(0)} \cup {Reading(d) : d \in DistancesCm},
     ir : {Failed(FALSE)} \cup {Reading(b) : b \in BOOLEAN},
     camera : {Failed(NoFrame)} \cup {Reading(f) : f \in Frames}]

\* DetectionResult
DetectionResult(distance, obstacle, dune_confidence, frame) ==
    [distance |-> distance, obstacle |-> obstacle,
     dune_confidence |-> dune_confidence, frame |-> frame]

\* The combination of the heuristics at the end of detect_dune
Combine(distance, obstacle, frame, camera_conf, distance_threshold) ==
    LET conf0 == (7 * camera_conf) \div 10
        conf1 == IF Less(distance, distance_threshold)
                 THEN conf0 + 250 ELSE conf0
        conf2 == IF obstacle THEN conf1 + 150 ELSE conf1
    IN  Reading(DetectionResult(distance, obstacle, clamp01(conf2), frame))

\* detect_dune with the infrared read outside its try statement
detect_dune_IrUnguarded(distance_threshold, use_camera) ==
    LET distance == IF reads.ultrasonic.ok
                    THEN Finite(reads.ultrasonic.value) ELSE Inf
        analysed == IF reads.camera.ok
                    THEN analyze_frame(reads.camera.value)
                    ELSE Failed(0)
        frame == IF use_camera /\ reads.camera.ok
                 THEN reads.camera.value ELSE NoFrame
        camera_conf == IF use_camera /\ reads.camera.ok /\ analysed.ok
                       THEN analysed.value ELSE 0
    IN  IF ~reads.ir.ok
        THEN Failed(DetectionResult(Inf, FALSE, 0, NoFrame))
        ELSE Combine(distance, reads.ir.value, frame, camera_conf,
                     distance_threshold)

\* detect_dune: each read is in a try statement of its own, and a read that
\* raises leaves the default (inf, False, None and 0.0) in place.
detect_dune(distance_threshold, use_camera) ==
    LET distance == IF reads.ultrasonic.ok
                    THEN Finite(reads.ultrasonic.value) ELSE Inf
        obstacle == IF reads.ir.ok THEN reads.ir.value ELSE FALSE
        analysed == IF reads.camera.ok
                    THEN analyze_frame(reads.camera.value)
                    ELSE Failed(0)
        frame == IF use_camera /\ reads.camera.ok
                 THEN reads.camera.value ELSE NoFrame
        camera_conf == IF use_camera /\ reads.camera.ok /\ analysed.ok
                       THEN analysed.value ELSE 0
    IN  Combine(distance, obstacle, frame, camera_conf, distance_threshold)

\* take_action with the branch taken from 0.4 upwards
take_action_FromFourTenths(result) ==
    IF result.dune_confidence >= 400 THEN "Dune likely" ELSE "No dune"

\* main.take_action: the branch it takes, by the text it logs
take_action(result) ==
    IF result.dune_confidence >= 600 THEN "Dune likely" ELSE "No dune"

----------------------------------------------------------------------------
\* The programs beside the camera manager.  A step of one of them leaves
\* the manager, the last call of a module-level function and the variables
\* of the other programs (own) as they are.
Beside(own) ==
    /\ UNCHANGED <<camera_type, auto_reconnect, lastcall, manager>>
    /\ UNCHANGED own

DuneOnly == <<host, grabber, server>>
GrabberOnly == <<host, dune, server>>
ServerOnly ==
    <<path, devnodes, dune, thread, latest, lock, gpc, glocal, chunk>>

----------------------------------------------------------------------------
\* stream_server.FrameGrabber: the capture thread and the clients that
\* iterate generate_mjpeg().

MaxFrames == 3
MaxClients == 2
MaxCaptures == 2

\* The capture threads (the first is Capture), the clients, and the main
\* thread, which calls start(), stop() and get_latest_raw().
Capture == 0
CaptureThreads == {Capture - k : k \in 0..(MaxCaptures - 1)}
Clients == 1..MaxClients
Free == MaxClients + 1
Main == MaxClients + 2
GrabberThreads == CaptureThreads \cup Clients \cup {Main}

NoChunk == [sent |-> FALSE, frame |-> 0]

\* FrameGrabber.__init__
GrabberConstructed ==
    /\ running = FALSE
    /\ thread = Free
    /\ latest = 0
    /\ lock = Free
    /\ gpc = [t \in GrabberThreads |->
                 IF t = Main THEN "idle" ELSE "unborn"]
    /\ glocal = [c \in Clients |-> 0]
    /\ chunk = [c \in Clients |-> NoChunk]

GGoto(t, where) == gpc' = [gpc EXCEPT ![t] = where]

\* A capture thread that is alive: started and not yet out of _capture_loop
AliveCapture(t) == gpc[t] \notin {"unborn", "done"}

\* The thread object a start() creates: one that is not in use
NewThread == CHOOSE t \in CaptureThreads :
    /\ ~AliveCapture(t)
    /\ \A u \in CaptureThreads : ~AliveCapture(u) => t >= u

\* start(): nothing when _running, else _running = True and a new capture
\* thread is created, bound to _thread and started.
GrabberStart ==
    /\ gpc[Main] = "idle"
    /\ ~running
    /\ \E t \in CaptureThreads : ~AliveCapture(t)
    /\ running' = TRUE
    /\ thread' = NewThread
    /\ GGoto(NewThread, "loop")
    /\ UNCHANGED <<latest, lock, glocal, chunk>>
    /\ Beside(GrabberOnly)

\* stop(): _running = False, up to the join of the capture thread
GrabberStop ==
    /\ gpc[Main] = "idle"
    /\ running
    /\ running' = FALSE
    /\ GGoto(Main, "join")
    /\ UNCHANGED <<thread, latest, lock, glocal, chunk>>
    /\ Beside(GrabberOnly)

\* join(timeout=5) gives up on a capture thread that is inside a device
\* read: capture_array() and VideoCapture.read() block until the device
\* delivers a frame.
GrabberJoinCanTimeOut(t) == gpc[t] = "read"

\* if self._thread is not None: self._thread.join(timeout=5); the camera is
\* stopped or released and stop() returns.
GrabberJoin ==
    /\ gpc[Main] = "join"
    /\ thread # Free =>
          gpc[thread] = "done" \/ GrabberJoinCanTimeOut(thread)
    /\ GGoto(Main, "idle")
    /\ UNCHANGED <<running, thread, latest, lock, glocal, chunk>>
    /\ Beside(GrabberOnly)

\* _capture_loop, while self._running: the loop ends, or the device is read
CaptureLoop(t) ==
    /\ gpc[t] = "loop"
    /\ GGoto(t, IF running THEN "read" ELSE "done")
    /\ UNCHANGED <<running, thread, latest, lock, glocal, chunk>>
    /\ Beside(GrabberOnly)

\* The device read returns: a capture that fails sleeps and goes round
\* again, a frame that was captured is encoded.
CaptureRead(t) ==
    /\ gpc[t] = "read"
    /\ \/ GGoto(t, "loop")
       \/ latest < MaxFrames /\ GGoto(t, "acquire")
    /\ UNCHANGED <<running, thread, latest, lock, glocal, chunk>>
    /\ Beside(GrabberOnly)

\* with self._lock: entered when the lock is free
Acquire(t) ==
    /\ gpc[t] = "acquire"
    /\ lock = Free
    /\ lock' = t
    /\ GGoto(t, "locked")
    /\ UNCHANGED <<running, thread, latest, glocal, chunk>>
    /\ Beside(GrabberOnly)

\* self.frame = buf.tobytes(), and the with statement ends
CaptureStore(t) ==
    /\ gpc[t] = "locked"
    /\ latest' = latest + 1
    /\ lock' = IF lock = t THEN Free ELSE lock
    /\ GGoto(t, "loop")
    /\ UNCHANGED <<running, thread, glocal, chunk>>
    /\ Beside(GrabberOnly)

\* integrated_sensors: the sensor loop of the main thread calls
\* grabber.get_latest_raw(), up to its with self._lock:
GetLatestRaw ==
    /\ gpc[Main] = "idle"
    /\ GGoto(Main, "acquire")
    /\ UNCHANGED <<running, thread, latest, lock, glocal, chunk>>
    /\ Beside(GrabberOnly)

\* get_latest_raw: ok, raw = self._cap.read() returns, the with statement
\* ends and the call returns raw or None.
RawRead ==
    /\ gpc[Main] = "locked"
    /\ lock' = IF lock = Main THEN Free ELSE lock
    /\ GGoto(Main, "idle")
    /\ UNCHANGED <<running, thread, latest, glocal, chunk>>
    /\ Beside(GrabberOnly)

\* A client starts to iterate the generator of a /video response.
GenerateStart(c) ==
    /\ gpc[c] \in {"unborn", "done"}
    /\ GGoto(c, "loop")
    /\ UNCHANGED <<running, thread, latest, lock, glocal, chunk>>
    /\ Beside(GrabberOnly)

\* generate_mjpeg, while self._running
GenerateLoop(c) ==
    /\ gpc[c] = "loop"
    /\ GGoto(c, IF running THEN "acquire" ELSE "done")
    /\ UNCHANGED <<running, thread, latest, lock, glocal, chunk>>
    /\ Beside(GrabberOnly)

\* frame = self.frame, and the with statement ends
GenerateRead(c) ==
    /\ gpc[c] = "locked"
    /\ glocal' = [glocal EXCEPT ![c] = latest]
    /\ lock' = IF lock = c THEN Free ELSE lock
    /\ GGoto(c, "test")
    /\ UNCHANGED <<running, thread, latest, chunk>>
    /\ Beside(GrabberOnly)

\* GenerateYield without the test for None
GenerateYieldsNone(c) ==
    /\ gpc[c] = "test"
    /\ chunk' = [chunk EXCEPT ![c] = [sent |-> TRUE, frame |-> glocal[c]]]
    /\ GGoto(c, "loop")
    /\ UNCHANGED <<running, thread, latest, lock, glocal>>
    /\ Beside(GrabberOnly)

\* if frame is None: sleep and go round again; else yield the chunk that
\* wraps frame, sleep, and go round again when the client asks for more.
GenerateYield(c) ==
    /\ gpc[c] = "test"
    /\ IF glocal[c] = 0
       THEN UNCHANGED chunk
       ELSE chunk' = [chunk EXCEPT ![c] = [sent |-> TRUE, frame |-> glocal[c]]]
    /\ GGoto(c, "loop")
    /\ UNCHANGED <<running, thread, latest, lock, glocal>>
    /\ Beside(GrabberOnly)

----------------------------------------------------------------------------
\* stream_server.create_app: the Flask application around cam_manager and
\* grabber.  Requests are served by threads of their own (threaded=True); a
\* request is received, its view function runs, and the application context
\* of the request is torn down, which calls the teardown_appcontext
\* functions.  The manager is seen through its public calls.

MaxRequests == 2

Slots == 1..MaxRequests

Routes ==
    {"/health", "/video", "/stream/start", "/stream/stop", "/stream/status"}

\* The JSON bodies of POST /stream/start: no body, an ip, an ip and a port
NoBody == [keys |-> {}, ip |-> "", port |-> 0]

Bodies ==
    {NoBody,
     [keys |-> {"ip"}, ip |-> "10.0.0.5", port |-> 0],
     [keys |-> {"ip", "port"}, ip |-> "10.0.0.5", port |-> 5600]}

\* data.get(key, default)
Get(body, key, default) == IF key \in body.keys THEN body[key] ELSE default

NoResponse ==
    [code |-> 0, status |-> "", streaming |-> FALSE,
     target_ip |-> "", target_port |-> 0]

Response(code, status) ==
    [code |-> code, status |-> status, streaming |-> FALSE,
     target_ip |-> "", target_port |-> 0]

NoRequest ==
    [route |-> "none", body |-> NoBody, phase |-> "idle",
     response |-> NoResponse]

\* No pipeline: the manager has no live process and no watchdog.
Down ==
    [up |-> FALSE, watchdog |-> FALSE, launched_ip |-> "", launched_port |-> 0,
     ip |-> "", port |-> 0]

\* cam_manager = CameraManager(...), no request received
ServerIdle ==
    /\ requests = [r \in Slots |-> NoRequest]
    /\ session = Down

\* The view function of slot r returns response rsp.
Answer(r, rsp) ==
    requests' = [requests EXCEPT ![r].phase = "teardown", ![r].response = rsp]

Viewing(r, route) ==
    requests[r].phase = "view" /\ requests[r].route = route

\* A request arrives.
Receive(r) ==
    /\ requests[r].phase = "idle"
    /\ \E route \in Routes, body \in Bodies :
          /\ route # "/stream/start" => body = NoBody
          /\ requests' = [requests EXCEPT
                             ![r] = [route |-> route, body |-> body,
                                     phase |-> "view",
                                     response |-> NoResponse]]
    /\ UNCHANGED <<session, running, params>>
    /\ Beside(ServerOnly)

\* health()
Health(r) ==
    /\ Viewing(r, "/health")
    /\ Answer(r, Response(200, "ok"))
    /\ UNCHANGED <<session, running, params>>
    /\ Beside(ServerOnly)

\* video_feed(): the response holds the generator, which has not run yet.
VideoFeed(r) ==
    /\ Viewing(r, "/video")
    /\ Answer(r, Response(200, "multipart/x-mixed-replace"))
    /\ UNCHANGED <<session, running, params>>
    /\ Beside(ServerOnly)

\* stream_start(): the target of the body is assigned to cam_manager, then
\* start_stream() is called: it returns at once when the manager is
\* streaming, raises RuntimeError without a camera, and else launches the
\* pipeline with the manager's target and starts the watchdog.
StreamStart(r) ==
    /\ Viewing(r, "/stream/start")
    /\ LET target_ip == Get(requests[r].body, "ip", params.target_ip)
           target_port == Get(requests[r].body, "port", params.target_port)
           streaming == [Response(200, "streaming") EXCEPT
                            !.target_ip = target_ip,
                            !.target_port = target_port]
       IN  /\ params' = [params EXCEPT !.target_ip = target_ip,
                                       !.target_port = target_port]
           /\ IF session.up
              THEN /\ Answer(r, streaming)
                   /\ UNCHANGED session
              ELSE IF ~launch_pipeline.ok
              THEN /\ Answer(r, Response(500, "error"))
                   /\ UNCHANGED session
              ELSE /\ Answer(r, streaming)
                   /\ session' = [up |-> TRUE, watchdog |-> TRUE,
                                  launched_ip |-> target_ip,
                                  launched_port |-> target_port,
                                  ip |-> target_ip, port |-> target_port]
    /\ UNCHANGED running
    /\ Beside(ServerOnly)

\* stream_stop()
StreamStop(r) ==
    /\ Viewing(r, "/stream/stop")
    /\ session' = Down
    /\ Answer(r, Response(200, "stopped"))
    /\ UNCHANGED <<running, params>>
    /\ Beside(ServerOnly)

\* stream_status()
StreamStatus(r) ==
    /\ Viewing(r, "/stream/status")
    /\ Answer(r, [Response(200, "status") EXCEPT
                     !.streaming = session.up,
                     !.target_ip = params.target_ip,
                     !.target_port = params.target_port])
    /\ UNCHANGED <<session, running, params>>
    /\ Beside(ServerOnly)

\* The application context of the request is popped: _cleanup, registered
\* with teardown_appcontext, calls cam_manager.stop_stream() and
\* grabber.stop().
Cleanup(r) ==
    /\ requests[r].phase = "teardown"
    /\ requests' = [requests EXCEPT ![r] = NoRequest]
    /\ session' = Down
    /\ running' = FALSE
    /\ UNCHANGED params
    /\ Beside(ServerOnly)

\* The processes of the pipeline die.
PipelineDies ==
    /\ session.up
    /\ session' = [session EXCEPT !.up = FALSE]
    /\ UNCHANGED <<requests, running, params>>
    /\ Beside(ServerOnly)

\* The watchdog of the session relaunches the pipeline: _launch_pipeline
\* builds the command from the manager's target as it is now.
Relaunch ==
    /\ session.watchdog
    /\ ~session.up
    /\ auto_reconnect
    /\ launch_pipeline.ok
    /\ session' = [session EXCEPT !.up = TRUE, !.ip = params.target_ip,
                                  !.port = params.target_port]
    /\ UNCHANGED <<requests, running, params>>
    /\ Beside(ServerOnly)

NoDetection ==
    [called |-> FALSE, distance_threshold |-> 100, use_camera |-> TRUE,
     reads |-> [ultrasonic |-> Failed(0), ir |-> Failed(FALSE),
                camera |-> Failed(NoFrame)],
     result |-> Failed(DetectionResult(Inf, FALSE, 0, NoFrame)),
     action |-> "none"]

\* No sensor module is installed and detect_dune was not called.
NothingDetected ==
    /\ reads = NoDetection.reads
    /\ detection = NoDetection

\* The state of the programs beside the camera manager before they run
NothingElse ==
    /\ NothingDetected
    /\ GrabberConstructed
    /\ ServerIdle

----------------------------------------------------------------------------
\* CameraManager.__init__, on a host with every tool and device
Constructed ==
    /\ camera_type \in CameraType
    /\ auto_reconnect \in BOOLEAN
    /\ processes = 0
    /\ cleared = [l \in ListIds |-> l = 0]
    /\ pstate = [l \in Launches |-> [s \in 1..2 |-> "none"]]
    /\ nextLaunch = 0
    /\ stop_event = FALSE
    /\ reconnect_attempts = 0
    /\ watchdog_thread = 0
    /\ nextThread = 0
    /\ pc = [t \in Threads |-> IF t = Caller THEN "idle" ELSE "unborn"]
    /\ itList = [t \in Threads |-> 0]
    /\ itIdx = [t \in Threads |-> 1]
    /\ building = [t \in Threads |-> 0]
    /\ op = "none"
    /\ ctx = "none"
    /\ ret = "none"
    /\ snap = 0
    /\ prior = <<"none", "none">>
    /\ relaunches = 0
    /\ calls = 0
    /\ path = Tools
    /\ devnodes = [n \in DevNames |-> "char"]
    /\ params = DefaultParams
    /\ NothingCalled

Init ==
    /\ Constructed
    /\ NothingElse

----------------------------------------------------------------------------
\* The top of the loop of _watchdog: while not self._stop_event.is_set():
\* time.sleep(1.0)
WdLoopTop == IF stop_event THEN "done" ELSE "wd_sleep"

\* Raised with the caller's exception swallowed: start_stream goes on to
\* start the watchdog as if the launch had succeeded.
RaisedSwallowed(t) ==
    /\ pc' = [pc EXCEPT ![t] = IF t = Caller THEN "start_thread" ELSE WdLoopTop]
    /\ ret' = ret
    /\ ResetIter(t)
    /\ building' = [building EXCEPT ![t] = 0]

\* Raised with no except clause in _watchdog: the exception ends the thread.
RaisedEndsWatchdog(t) ==
    /\ pc' = [pc EXCEPT ![t] = IF t = Caller THEN "idle" ELSE "done"]
    /\ ret' = IF t = Caller THEN "err" ELSE ret
    /\ ResetIter(t)
    /\ building' = [building EXCEPT ![t] = 0]

\* An exception leaving the step of thread t.  In the caller it propagates out
\* of the public call; in a watchdog it is raised inside _launch_pipeline and
\* caught by the except clause of _watchdog, which goes back to the loop top.
Raised(t) ==
    /\ pc' = [pc EXCEPT ![t] = IF t = Caller THEN "idle" ELSE WdLoopTop]
    /\ ret' = IF t = Caller THEN "err" ELSE ret
    /\ ResetIter(t)
    /\ building' = [building EXCEPT ![t] = 0]

\* Where a thread continues when _terminate_processes returns.
AfterTerminate(t) ==
    IF t = Caller /\ ctx = "stop" THEN "stop_join" ELSE "spawn"

\* Where a thread continues when _launch_pipeline returns.
AfterLaunch(t) == IF t = Caller THEN "start_thread" ELSE WdLoopTop

----------------------------------------------------------------------------
\* _terminate_processes, run by the caller (stop_stream, _launch_pipeline)
\* and by watchdogs (_launch_pipeline)

\* for proc in self._processes: the iterator is made over the bound list
TermBegin(t) ==
    /\ pc[t] = "term_begin"
    /\ itList' = [itList EXCEPT ![t] = processes]
    /\ itIdx' = [itIdx EXCEPT ![t] = 1]
    /\ Goto(t, "term_next")
    /\ UNCHANGED <<config, fields, building, callerv, history>>

\* The handles the for loop of thread t has still to visit that are alive
LiveAhead(t) ==
    {i \in itIdx[t]..ListLen(itList[t]) : Alive(itList[t], i)}

Min(S) == CHOOSE x \in S : \A y \in S : x <= y

\* TermNext with proc.kill() in the place of send_signal(SIGINT): the live
\* handle is killed at once and waited for 2 seconds.
TermNextKillsAtOnce(t) ==
    /\ pc[t] = "term_next"
    /\ IF LiveAhead(t) = {}
       THEN /\ cleared' = [cleared EXCEPT ![processes] = TRUE]
            /\ Goto(t, AfterTerminate(t))
            /\ ResetIter(t)
       ELSE /\ itIdx' = [itIdx EXCEPT ![t] = Min(LiveAhead(t))]
            /\ Goto(t, "term_killwait")
            /\ UNCHANGED <<cleared, itList>>
    /\ UNCHANGED <<config, processes, pstate, nextLaunch, stop_event,
                   reconnect_attempts, watchdog_thread, nextThread,
                   building, callerv, history>>

\* The for loop goes on: handles that have exited are skipped (poll() is not
\* None), the first live one is sent SIGINT and waited for; when no handle is
\* left the loop ends and self._processes.clear() runs on the list that is
\* bound at that moment.  send_signal on a child of this process polls first
\* and swallows ProcessLookupError, so the OSError arm of the except clause
\* is not taken and kill() is reached through the timed-out wait only.
TermNext(t) ==
    /\ pc[t] = "term_next"
    /\ IF LiveAhead(t) = {}
       THEN /\ cleared' = [cleared EXCEPT ![processes] = TRUE]
            /\ Goto(t, AfterTerminate(t))
            /\ ResetIter(t)
       ELSE /\ itIdx' = [itIdx EXCEPT ![t] = Min(LiveAhead(t))]
            /\ Goto(t, "term_wait")
            /\ UNCHANGED <<cleared, itList>>
    /\ UNCHANGED <<config, processes, pstate, nextLaunch, stop_event,
                   reconnect_attempts, watchdog_thread, nextThread,
                   building, callerv, history>>

\* proc.wait(timeout=3) after SIGINT: the process exits within the grace
\* period, or the wait times out and proc.kill() is called.
TermWait(t) ==
    /\ pc[t] = "term_wait"
    /\ \/ /\ pstate' = [pstate EXCEPT ![itList[t]][itIdx[t]] = "exited"]
          /\ itIdx' = [itIdx EXCEPT ![t] = @ + 1]
          /\ Goto(t, "term_next")
       \/ /\ Alive(itList[t], itIdx[t])
          /\ Goto(t, "term_killwait")
          /\ UNCHANGED <<pstate, itIdx>>
    /\ UNCHANGED <<config, processes, cleared, nextLaunch, stop_event,
                   reconnect_attempts, watchdog_thread, nextThread,
                   itList, building, callerv, history>>

\* proc.wait(timeout=2) after kill(): the process is reaped, or the wait
\* raises TimeoutExpired, which nothing in _terminate_processes catches.
TermKillWait(t) ==
    /\ pc[t] = "term_killwait"
    /\ \/ /\ pstate' = [pstate EXCEPT ![itList[t]][itIdx[t]] = "exited"]
          /\ itIdx' = [itIdx EXCEPT ![t] = @ + 1]
          /\ Goto(t, "term_next")
          /\ UNCHANGED <<itList, building, ret>>
       \/ /\ Alive(itList[t], itIdx[t])
          /\ Raised(t)
          /\ UNCHANGED pstate
    /\ UNCHANGED <<config, processes, cleared, nextLaunch, stop_event,
                   reconnect_attempts, watchdog_thread, nextThread,
                   op, ctx, history>>

----------------------------------------------------------------------------
\* _launch_pipeline after its _terminate_processes call

\* SpawnFirst with a watchdog's successful relaunch setting the attempt
\* counter back to 0.
SpawnFirstResetsAttempts(t, lim) ==
    /\ pc[t] = "spawn"
    /\ \/ /\ Raised(t)
          /\ UNCHANGED <<processes, pstate, nextLaunch, reconnect_attempts>>
       \/ /\ nextLaunch < lim.launches
          /\ nextLaunch' = nextLaunch + 1
          /\ pstate' = [pstate EXCEPT ![nextLaunch + 1][1] = "running"]
          /\ IF camera_type = "PI_CAMERA"
             THEN /\ building' = [building EXCEPT ![t] = nextLaunch + 1]
                  /\ Goto(t, "spawn2")
                  /\ UNCHANGED <<processes, reconnect_attempts>>
             ELSE /\ processes' = nextLaunch + 1
                  /\ Goto(t, AfterLaunch(t))
                  /\ reconnect_attempts' =
                         IF t = Caller THEN reconnect_attempts ELSE 0
                  /\ UNCHANGED building
          /\ UNCHANGED <<itList, itIdx, ret>>
    /\ UNCHANGED <<config, cleared, stop_event, watchdog_thread, nextThread,
                   op, ctx, history>>

\* The first (or only) Popen.  The builder or Popen raises and nothing is
\* spawned; or the process is spawned: the USB pipeline is then complete and
\* self._processes is bound to the new list, the Pi pipeline goes on to
\* stage 2.
SpawnFirst(t, lim) ==
    /\ pc[t] = "spawn"
    /\ \/ /\ Raised(t)
          /\ UNCHANGED <<processes, pstate, nextLaunch>>
       \/ /\ nextLaunch < lim.launches
          /\ nextLaunch' = nextLaunch + 1
          /\ pstate' = [pstate EXCEPT ![nextLaunch + 1][1] = "running"]
          /\ IF camera_type = "PI_CAMERA"
             THEN /\ building' = [building EXCEPT ![t] = nextLaunch + 1]
                  /\ Goto(t, "spawn2")
                  /\ UNCHANGED processes
             ELSE /\ processes' = nextLaunch + 1
                  /\ Goto(t, AfterLaunch(t))
                  /\ UNCHANGED building
          /\ UNCHANGED <<itList, itIdx, ret>>
    /\ UNCHANGED <<config, cleared, stop_event, reconnect_attempts,
                   watchdog_thread, nextThread, op, ctx, history>>

\* The second Popen of the Pi pipeline: it raises and leaves stage 1 running
\* and unreferenced; or stage 2 is spawned, the parent's copy of the pipe is
\* closed and self._processes is bound to [libcamera_proc, gst_proc].
SpawnSecond(t) ==
    /\ pc[t] = "spawn2"
    /\ \/ /\ Raised(t)
          /\ UNCHANGED <<processes, pstate>>
       \/ /\ pstate' = [pstate EXCEPT ![building[t]][2] = "running"]
          /\ processes' = building[t]
          /\ building' = [building EXCEPT ![t] = 0]
          /\ Goto(t, AfterLaunch(t))
          /\ UNCHANGED <<itList, itIdx, ret>>
    /\ UNCHANGED <<config, cleared, nextLaunch, stop_event,
                   reconnect_attempts, watchdog_thread, nextThread,
                   op, ctx, history>>

----------------------------------------------------------------------------
\* The public API, on the caller's thread

Return(outcome) ==
    /\ Goto(Caller, "idle")
    /\ ret' = outcome

\* StartBody without the is_streaming test
StartBodyNoStreamingCheck ==
    /\ IF camera_type = "NONE"
       THEN Return("err") /\ UNCHANGED stop_event
       ELSE /\ stop_event' = FALSE
            /\ Goto(Caller, "start_reset")
            /\ ret' = "pending"
    /\ UNCHANGED <<config, processes, cleared, pstate, nextLaunch,
                   reconnect_attempts, watchdog_thread, nextThread,
                   locals, ctx, snap, prior, relaunches>>

\* StartBody with self._stop_event.clear() moved above the camera test
StartBodyClearsFirst ==
    /\ IF is_streaming
       THEN Return("noop") /\ UNCHANGED stop_event
       ELSE /\ stop_event' = FALSE
            /\ IF camera_type = "NONE"
               THEN Return("err")
               ELSE Goto(Caller, "start_reset") /\ ret' = "pending"
    /\ UNCHANGED <<config, processes, cleared, pstate, nextLaunch,
                   reconnect_attempts, watchdog_thread, nextThread,
                   locals, ctx, snap, prior, relaunches>>

\* start_stream up to self._stop_event.clear(): the no-op when streaming,
\* the error when there is no camera.
StartBody ==
    /\ IF is_streaming
       THEN Return("noop") /\ UNCHANGED stop_event
       ELSE IF camera_type = "NONE"
       THEN Return("err") /\ UNCHANGED stop_event
       ELSE /\ stop_event' = FALSE
            /\ Goto(Caller, "start_reset")
            /\ ret' = "pending"
    /\ UNCHANGED <<config, processes, cleared, pstate, nextLaunch,
                   reconnect_attempts, watchdog_thread, nextThread,
                   locals, ctx, snap, prior, relaunches>>

\* The caller calls start_stream.
StartStream(lim) ==
    /\ pc[Caller] = "idle"
    /\ calls < lim.calls
    /\ calls' = calls + 1
    /\ op' = "start"
    /\ StartBody

\* restart_stream after stop_stream and time.sleep(0.5): start_stream
RestartStart ==
    /\ pc[Caller] = "start_entry"
    /\ UNCHANGED <<op, calls>>
    /\ StartBody

\* self._reconnect_attempts = 0; self._launch_pipeline(), up to the for
\* statement of _terminate_processes
StartReset ==
    /\ pc[Caller] = "start_reset"
    /\ reconnect_attempts' = 0
    /\ relaunches' = 0
    /\ ctx' = "launch"
    /\ itList' = [itList EXCEPT ![Caller] = processes]
    /\ itIdx' = [itIdx EXCEPT ![Caller] = 1]
    /\ Goto(Caller, "term_next")
    /\ UNCHANGED <<config, processes, cleared, pstate, nextLaunch, stop_event,
                   watchdog_thread, nextThread, building, op, ret, snap,
                   prior, calls>>

\* self._watchdog_thread = Thread(target=self._watchdog); .start(); the new
\* thread enters its loop.
StartThread(lim) ==
    /\ pc[Caller] = "start_thread"
    /\ nextThread < lim.watchdogs
    /\ nextThread' = nextThread + 1
    /\ watchdog_thread' = nextThread + 1
    /\ pc' = [pc EXCEPT ![Caller] = "idle", ![nextThread + 1] = WdLoopTop]
    /\ ret' = "ok"
    /\ UNCHANGED <<config, processes, cleared, pstate, nextLaunch, stop_event,
                   reconnect_attempts, locals, op, ctx, history>>

\* The caller calls stop_stream, or restart_stream, whose first statement is
\* self.stop_stream(): self._stop_event.set(); self._terminate_processes()
StopStream(which, lim) ==
    /\ pc[Caller] = "idle"
    /\ calls < lim.calls
    /\ calls' = calls + 1
    /\ op' = which
    /\ ret' = "pending"
    /\ snap' = IF ListLen(processes) = 0 THEN 0 ELSE processes
    /\ prior' = <<op, ret>>
    /\ stop_event' = TRUE
    /\ ctx' = "stop"
    /\ Goto(Caller, "term_begin")
    /\ UNCHANGED <<config, processes, cleared, pstate, nextLaunch,
                   reconnect_attempts, watchdog_thread, nextThread,
                   locals, relaunches>>

\* join(timeout=5) can give up on a watchdog that is inside a wait of
\* _terminate_processes: up to 3 seconds of backoff sleep came before it and
\* the waits themselves last up to 3 and 2 seconds for each handle.
JoinCanTimeOut(t) == pc[t] \in {"term_wait", "term_killwait"}

\* if self._watchdog_thread is not None: join(timeout=5); ... = None.
\* stop_stream then returns; restart_stream sleeps and calls start_stream.
StopJoin ==
    /\ pc[Caller] = "stop_join"
    /\ \/ watchdog_thread = 0
       \/ watchdog_thread # 0 /\ pc[watchdog_thread] = "done"
       \/ watchdog_thread # 0 /\ JoinCanTimeOut(watchdog_thread)
    /\ watchdog_thread' = 0
    /\ IF op = "restart"
       THEN Goto(Caller, "start_entry") /\ UNCHANGED ret
       ELSE Return("ok")
    /\ UNCHANGED <<config, processes, cleared, pstate, nextLaunch, stop_event,
                   reconnect_attempts, nextThread, locals, op, ctx, history>>

----------------------------------------------------------------------------
\* _watchdog, one thread per successful start_stream

\* The poll sleep is over: if self._stop_event.is_set(): break; then
\* is_streaming.  A streaming pipeline sends the loop back to its top.
WdPoll(t) ==
    /\ pc[t] = "wd_sleep"
    /\ Goto(t, IF stop_event THEN "done"
               ELSE IF is_streaming THEN "wd_top" ELSE "wd_diag")
    /\ UNCHANGED <<config, fields, locals, callerv, history>>

\* Back at the top after a poll that found the pipeline streaming
WdTop(t) ==
    /\ pc[t] = "wd_top"
    /\ Goto(t, WdLoopTop)
    /\ UNCHANGED <<config, fields, locals, callerv, history>>

\* WdDiag giving up when the counter reaches the ceiling (>= for >)
WdDiagGivesUpAtCeiling(t) ==
    /\ pc[t] = "wd_diag"
    /\ IF ~auto_reconnect
       THEN Goto(t, "done") /\ UNCHANGED reconnect_attempts
       ELSE /\ reconnect_attempts' = reconnect_attempts + 1
            /\ Goto(t, IF reconnect_attempts + 1 >= MAX_RECONNECT_ATTEMPTS
                       THEN "done" ELSE "wd_backoff")
    /\ UNCHANGED <<config, processes, cleared, pstate, nextLaunch, stop_event,
                   watchdog_thread, nextThread, locals, callerv, history>>

\* WdDiag without the auto_reconnect test
WdDiagIgnoresFlag(t) ==
    /\ pc[t] = "wd_diag"
    /\ reconnect_attempts' = reconnect_attempts + 1
    /\ Goto(t, IF reconnect_attempts + 1 > MAX_RECONNECT_ATTEMPTS
               THEN "done" ELSE "wd_backoff")
    /\ UNCHANGED <<config, processes, cleared, pstate, nextLaunch, stop_event,
                   watchdog_thread, nextThread, locals, callerv, history>>

\* The pipeline is down: log each handle's stderr, give up without
\* auto_reconnect, else count the attempt and give up above the ceiling.
WdDiag(t) ==
    /\ pc[t] = "wd_diag"
    /\ IF ~auto_reconnect
       THEN Goto(t, "done") /\ UNCHANGED reconnect_attempts
       ELSE /\ reconnect_attempts' = reconnect_attempts + 1
            /\ Goto(t, IF reconnect_attempts + 1 > MAX_RECONNECT_ATTEMPTS
                       THEN "done" ELSE "wd_backoff")
    /\ UNCHANGED <<config, processes, cleared, pstate, nextLaunch, stop_event,
                   watchdog_thread, nextThread, locals, callerv, history>>

\* time.sleep(RECONNECT_DELAY) returns and _launch_pipeline is called, up to
\* the for statement of _terminate_processes; the stop event is not looked at.
WdRelaunch(t) ==
    /\ pc[t] = "wd_backoff"
    /\ itList' = [itList EXCEPT ![t] = processes]
    /\ itIdx' = [itIdx EXCEPT ![t] = 1]
    /\ Goto(t, "term_next")
    /\ relaunches' = relaunches + 1
    /\ UNCHANGED <<config, fields, building, callerv, snap, prior,
                   calls>>

----------------------------------------------------------------------------
\* The environment: a running child process exits by itself.
ProcessExits(l, s) ==
    /\ Alive(l, s)
    /\ pstate' = [pstate EXCEPT ![l][s] = "exited"]
    /\ UNCHANGED <<config, processes, cleared, nextLaunch, stop_event,
                   reconnect_attempts, watchdog_thread, nextThread,
                   pc, locals, callerv, history>>

----------------------------------------------------------------------------
Next(lim) ==
    \/ StartStream(lim)
    \/ StopStream("stop", lim)
    \/ StopStream("restart", lim)
    \/ RestartStart
    \/ StartReset
    \/ StartThread(lim)
    \/ StopJoin
    \/ \E t \in Threads : TermBegin(t)
    \/ \E t \in Threads : TermNext(t)
    \/ \E t \in Threads : TermWait(t)
    \/ \E t \in Threads : TermKillWait(t)
    \/ \E t \in Threads : SpawnFirst(t, lim)
    \/ \E t \in Threads : SpawnSecond(t)
    \/ \E t \in Watchdogs : WdPoll(t)
    \/ \E t \in Watchdogs : WdTop(t)
    \/ \E t \in Watchdogs : WdDiag(t)
    \/ \E t \in Watchdogs : WdRelaunch(t)
    \/ \E l \in Launches, s \in 1..2 : ProcessExits(l, s)

Spec == Init /\ [][Next(Limits)]_vars

SpecWide == Init /\ [][Next(WideLimits)]_vars

\* A watchdog is a daemon thread of its own: its sleeps return and the
\* interpreter schedules it, so a step of its loop that stays possible is
\* taken.  Nothing is assumed of the caller or of the child processes.
WatchdogRuns(lim) ==
    \A t \in Watchdogs :
        /\ WF_vars(WdPoll(t))
        /\ WF_vars(WdTop(t))
        /\ WF_vars(WdDiag(t))
        /\ WF_vars(WdRelaunch(t))
        /\ WF_vars(TermNext(t))
        /\ WF_vars(TermWait(t))
        /\ WF_vars(TermKillWait(t))
        /\ WF_vars(SpawnFirst(t, lim))
        /\ WF_vars(SpawnSecond(t))

SpecLive == Init /\ [][Next(Limits)]_vars /\ WatchdogRuns(Limits)

SpecLiveWide == Init /\ [][Next(WideLimits)]_vars /\ WatchdogRuns(WideLimits)

----------------------------------------------------------------------------
\* The module-level functions applied on a host whose search path changes

\* A manager just constructed, on any host, with any parameters
InitHost ==
    /\ camera_type \in CameraType
    /\ auto_reconnect = TRUE
    /\ processes = 0
    /\ cleared = [l \in ListIds |-> l = 0]
    /\ pstate = [l \in Launches |-> [s \in 1..2 |-> "none"]]
    /\ nextLaunch = 0
    /\ stop_event = FALSE
    /\ reconnect_attempts = 0
    /\ watchdog_thread = 0
    /\ nextThread = 0
    /\ pc = [t \in Threads |-> IF t = Caller THEN "idle" ELSE "unborn"]
    /\ itList = [t \in Threads |-> 0]
    /\ itIdx = [t \in Threads |-> 1]
    /\ building = [t \in Threads |-> 0]
    /\ op = "none"
    /\ ctx = "none"
    /\ ret = "none"
    /\ snap = 0
    /\ prior = <<"none", "none">>
    /\ relaunches = 0
    /\ calls = 0
    /\ path \in SUBSET Tools
    /\ devnodes \in {d \in [DevNames -> DevKinds] : d["media0"] = "char"}
    /\ params \in Params
    /\ NothingCalled
    /\ NothingElse

\* Function fn was called in this step.
Recorded(fn) ==
    /\ called' = fn
    /\ seen' = path
    /\ repeated' = (called = fn)
    /\ UNCHANGED <<camera_type, auto_reconnect, host, manager, elsewhere>>

CallDetect ==
    /\ out' = Returns(detect_camera_type)
    /\ Recorded("detect_camera_type")

CallBuildPi ==
    /\ out' = build_picamera_pipeline(params.target_ip, params.target_port,
                                      params.width, params.height, params.fps)
    /\ Recorded("build_picamera_pipeline")

CallBuildUsb ==
    /\ out' = build_usb_camera_pipeline(params.target_ip, params.target_port,
                                        params.device, params.width,
                                        params.height, params.fps,
                                        params.bitrate)
    /\ Recorded("build_usb_camera_pipeline")

CallLaunch ==
    /\ out' = launch_pipeline
    /\ Recorded("_launch_pipeline")

\* The Pi camera CLIs come and go: rpicam-apps is installed or removed, an
\* upgrade of the system replaces libcamera-vid by rpicam-vid.
PiTools == {"rpicam-vid", "libcamera-vid"}

PathChanges ==
    /\ \E tool \in PiTools :
          path' = IF tool \in path THEN path \ {tool} ELSE path \cup {tool}
    /\ UNCHANGED <<camera_type, auto_reconnect, devnodes, params, lastcall,
                   manager, elsewhere>>

NextHost ==
    \/ CallDetect
    \/ CallBuildPi
    \/ CallBuildUsb
    \/ CallLaunch
    \/ PathChanges

SpecHost == InitHost /\ [][NextHost]_vars

----------------------------------------------------------------------------
\* The detection program: the sensors' outcomes change and detect_dune is
\* called.

SensorsChange ==
    /\ \E sensor \in DOMAIN reads :
          /\ reads' \in SensorReads
          /\ \A other \in DOMAIN reads \ {sensor} : reads'[other] = reads[other]
    /\ UNCHANGED detection
    /\ Beside(DuneOnly)

DetectDune ==
    /\ \E distance_threshold \in Thresholds, use_camera \in BOOLEAN :
          LET result == detect_dune(distance_threshold, use_camera)
          IN  detection' = [called |-> TRUE,
                            distance_threshold |-> distance_threshold,
                            use_camera |-> use_camera,
                            reads |-> reads,
                            result |-> result,
                            action |-> IF result.ok
                                       THEN take_action(result.value)
                                       ELSE "none"]
    /\ UNCHANGED reads
    /\ Beside(DuneOnly)

NextDune ==
    \/ SensorsChange
    \/ DetectDune

InitDune == Init /\ camera_type = "NONE" /\ ~auto_reconnect

SpecDune == InitDune /\ [][NextDune]_vars

----------------------------------------------------------------------------
\* The frame grabber with its capture thread and its clients
NextGrabber ==
    \/ GrabberStart
    \/ GrabberStop
    \/ GrabberJoin
    \/ \E t \in CaptureThreads : CaptureLoop(t)
    \/ \E t \in CaptureThreads : CaptureRead(t)
    \/ \E t \in CaptureThreads : CaptureStore(t)
    \/ \E t \in GrabberThreads : Acquire(t)
    \/ \E c \in Clients : GenerateStart(c)
    \/ \E c \in Clients : GenerateLoop(c)
    \/ \E c \in Clients : GenerateRead(c)
    \/ \E c \in Clients : GenerateYield(c)

InitGrabber == Init /\ camera_type = "NONE" /\ ~auto_reconnect

SpecGrabber == InitGrabber /\ [][NextGrabber]_vars

\* integrated_sensors: its FrameGrabber has the same start, stop and
\* _capture_loop, and get_latest_raw beside them.
NextSensors ==
    \/ NextGrabber
    \/ GetLatestRaw
    \/ RawRead

SpecSensors == InitGrabber /\ [][NextSensors]_vars

----------------------------------------------------------------------------
\* The HTTP server after create_app: grabber.start() was called.
NextServer ==
    \/ \E r \in Slots : Receive(r)
    \/ \E r \in Slots : Health(r)
    \/ \E r \in Slots : VideoFeed(r)
    \/ \E r \in Slots : StreamStart(r)
    \/ \E r \in Slots : StreamStop(r)
    \/ \E r \in Slots : StreamStatus(r)
    \/ \E r \in Slots : Cleanup(r)
    \/ PipelineDies
    \/ Relaunch

InitServer ==
    /\ Constructed
    /\ auto_reconnect
    /\ NothingDetected
    /\ ServerIdle
    /\ running = TRUE
    /\ thread = Capture
    /\ latest = 0
    /\ lock = Free
    /\ gpc = [t \in GrabberThreads |->
                 IF t = Capture THEN "loop"
                 ELSE IF t = Main THEN "idle" ELSE "unborn"]
    /\ glocal = [c \in Clients |-> 0]
    /\ chunk = [c \in Clients |-> NoChunk]

SpecServer == InitServer /\ [][NextServer]_vars

----------------------------------------------------------------------------
\* Vocabulary of the properties

\* A launch whose stages were all spawned: a launched pipeline
Launched(l) == \A s \in 1..NStages : pstate[l][s] # "none"

LivePipelines ==
    {l \in Launches : Launched(l) /\ \E s \in 1..NStages : Alive(l, s)}

\* This step is the entry of start_stream (called directly, or by
\* restart_stream after its stop_stream).
StartCalled ==
    \/ pc[Caller] = "idle" /\ calls' # calls /\ op' = "start"
    \/ pc[Caller] = "start_entry" /\ pc'[Caller] # "start_entry"

\* stop_stream has returned normally and nothing was called since.
StopReturned == pc[Caller] = "idle" /\ op = "stop" /\ ret = "ok"

WatchdogsUntouched == \A t \in Watchdogs : pc'[t] = pc[t]

----------------------------------------------------------------------------
\* C1: two launched pipelines never have live processes at the same time,
\* under any interleaving of the caller's calls with the watchdogs' relaunches.
C1_OnePipelineLive == Cardinality(LivePipelines) <= 1

\* C2: start_stream called while the manager is streaming is a no-op: it
\* returns at once and leaves the handle list, the processes, the watchdog
\* thread, the stop event and the attempt counter as they were.
C2_StartWhileStreamingIsNoop ==
    [][(StartCalled /\ is_streaming) =>
          /\ pc'[Caller] = "idle"
          /\ ret' = "noop"
          /\ UNCHANGED fields
          /\ WatchdogsUntouched]_vars

C2_Witness ==
    /\ pc[Caller] = "idle"
    /\ op = "start"
    /\ ret = "noop"
    /\ is_streaming
    /\ watchdog_thread # 0

\* C3: when stop_stream returns, every process that was in the handle list
\* when it was called has exited.
C3_StoppedHandlesExited ==
    (StopReturned /\ snap # 0) => \A s \in 1..NStages : ~Alive(snap, s)

\* C4: after stop_stream has returned the manager is not streaming, and stays
\* so until the caller's next call: no watchdog launches once stop is set.
C4_NotStreamingAfterStop == StopReturned => ~is_streaming

\* C5: within one session (since the last start_stream set the counter to 0)
\* the watchdogs issue at most MAX_RECONNECT_ATTEMPTS relaunches; stated for
\* the moments at which no public call is in progress.
C5_AtMostFiveRelaunches ==
    pc[Caller] = "idle" => relaunches <= MAX_RECONNECT_ATTEMPTS

\* C6: with auto_reconnect off no watchdog ever relaunches: the poll that
\* finds the pipeline dead ends the watchdog, and the pipeline comes up again
\* only through a launch made by the caller's start_stream.
C6_NoRelaunchWithoutAutoReconnect ==
    [][~auto_reconnect =>
          /\ \A t \in Watchdogs :
                /\ pc'[t] \in {"unborn", "wd_sleep", "wd_top", "wd_diag", "done"}
                /\ (pc[t] = "wd_diag" /\ pc'[t] # "wd_diag") => pc'[t] = "done"
          /\ relaunches' = 0
          /\ (~is_streaming /\ is_streaming') =>
                /\ pc[Caller] \in {"spawn", "spawn2"}
                /\ pc'[Caller] = "start_thread"]_vars

C6_Witness ==
    /\ ~auto_reconnect
    /\ calls = 1
    /\ op = "start"
    /\ pc[1] = "done"
    /\ ~is_streaming
    /\ processes = 1

\* C7: a watchdog stays Active after a poll only when every supervised handle
\* is alive: with any handle dead the poll goes on to diagnose.
C7_AnyDeadHandleLeavesActive ==
    [][\A t \in Watchdogs :
          (pc[t] = "wd_sleep" /\ pc'[t] = "wd_top") =>
              \A i \in 1..ListLen(processes) : Alive(processes, i)]_vars

\* C8: the attempt counter never decreases except when start_stream sets it
\* to 0; a watchdog's successful relaunch leaves it as it is and sends that
\* watchdog back to the top of its loop (to poll again, or to see the stop).
C8_AttemptsCumulative ==
    [][/\ reconnect_attempts' < reconnect_attempts =>
              /\ pc[Caller] = "start_reset"
              /\ pc'[Caller] # "start_reset"
              /\ reconnect_attempts' = 0
       /\ \A t \in Watchdogs :
              (pc[t] \in {"spawn", "spawn2"} /\ processes' # processes
                 /\ pc'[t] # pc[t]) =>
                  /\ reconnect_attempts' = reconnect_attempts
                  /\ pc'[t] = IF stop_event THEN "done" ELSE "wd_sleep"]_vars

C8_Witness ==
    /\ calls = 1
    /\ reconnect_attempts = 2
    /\ processes = 2
    /\ is_streaming
    /\ pc[1] = "wd_sleep"

\* C9: start_stream on a manager that is not streaming and has camera type
\* NONE raises and changes nothing: no process, no thread, and the handle
\* list, the stop event and the attempt counter keep their values.
C9_NoCameraStartFails ==
    [][(StartCalled /\ ~is_streaming /\ camera_type = "NONE") =>
          /\ pc'[Caller] = "idle"
          /\ ret' = "err"
          /\ UNCHANGED fields
          /\ WatchdogsUntouched]_vars

C9_Witness ==
    /\ camera_type = "NONE"
    /\ pc[Caller] = "idle"
    /\ op = "start"
    /\ ret = "err"
    /\ stop_event

\* The caller's _launch_pipeline, called by start_stream, fails in this step:
\* a Popen (or the builder before it) raises, or the wait after kill() does.
InitialLaunchFails ==
    /\ ctx = "launch"
    /\ pc'[Caller] # pc[Caller]
    /\ \/ /\ pc[Caller] \in {"spawn", "spawn2"}
          /\ processes' = processes
          /\ pc'[Caller] # "spawn2"
       \/ /\ pc[Caller] = "term_killwait"
          /\ pc'[Caller] # "term_next"

\* C10: a failure of the launch made by start_stream reaches the caller: the
\* call ends with the error, starts no watchdog thread and spawns nothing more.
C10_InitialStartFailureSurfaces ==
    [][InitialLaunchFails =>
          /\ pc'[Caller] = "idle"
          /\ ret' = "err"
          /\ nextThread' = nextThread
          /\ watchdog_thread' = watchdog_thread
          /\ nextLaunch' = nextLaunch
          /\ WatchdogsUntouched]_vars

C10_Witness ==
    /\ camera_type # "NONE"
    /\ pc[Caller] = "idle"
    /\ op = "start"
    /\ ret = "err"
    /\ calls = 1
    /\ nextThread = 0

\* Thread t is inside _terminate_processes.
InTerminate(t) ==
    pc[t] \in {"term_begin", "term_next", "term_wait", "term_killwait"}

\* C11: termination never raises: a stop_stream call that has ended has
\* returned normally, also when a process outlives the wait after kill().
C11_StopNeverRaises ==
    (pc[Caller] = "idle" /\ op = "stop") => ret = "ok"

\* C12: _terminate_processes asks the handles to stop in reverse launch
\* order: the first handle of the list (the capture stage) is signalled and
\* waited for only when no later handle of the list is still alive.
C12_ReverseLaunchOrder ==
    [][\A t \in Threads :
          (pc[t] = "term_next" /\ pc'[t] = "term_wait") =>
              \A i \in (itIdx'[t] + 1)..ListLen(itList[t]) :
                  ~Alive(itList[t], i)]_vars

\* C13: stop_stream waits for the watchdog (join, then
\* self._watchdog_thread = None) before it terminates the process handles:
\* while stop_stream is inside _terminate_processes the join is behind it.
C13_JoinBeforeTerminate ==
    (ctx = "stop" /\ InTerminate(Caller)) => watchdog_thread = 0

\* C14: whenever the manager is streaming between two public calls, the last
\* of which ended normally, it holds one or two handles and a watchdog thread
\* is running.
C14_StreamingHasWatchdog ==
    (pc[Caller] = "idle" /\ ret # "err" /\ is_streaming) =>
        /\ ListLen(processes) \in {1, 2}
        /\ \E t \in Watchdogs : pc[t] \notin {"unborn", "done"}

\* Thread t spawns a process in this step.
SpawnedBy(t) ==
    /\ pc[t] \in {"spawn", "spawn2"}
    /\ pc'[t] # pc[t]
    /\ \E l \in Launches, s \in 1..2 :
          pstate[l][s] = "none" /\ pstate'[l][s] = "running"

\* The attempt ceiling was exceeded in this session: a watchdog gave up and
\* start_stream has not set the counter back since.
GaveUp == reconnect_attempts > MAX_RECONNECT_ATTEMPTS

\* C15: once a watchdog has given up for the attempt ceiling, no watchdog
\* launches a process; the session stays down until the caller's start_stream
\* sets the counter back to 0.
C15_NoLaunchAfterGivingUp ==
    [][GaveUp => \A t \in Watchdogs : ~SpawnedBy(t)]_vars

\* C16: when restart_stream ends without an error, its start_stream has run
\* to the end: the processes of the list it found have exited, a list made
\* after the stop is bound and a new watchdog thread was started.
C16_RestartIsStopThenStart ==
    [][(op = "restart" /\ pc[Caller] # "idle" /\ pc'[Caller] = "idle"
          /\ ret' # "err") =>
          /\ ret' = "ok"
          /\ snap # 0 => \A i \in 1..NStages : pstate'[snap][i] # "running"
          /\ processes' \notin {0, snap}
          /\ watchdog_thread' # 0
          /\ nextThread' = nextThread + 1]_vars

----------------------------------------------------------------------------
\* Properties of the module-level functions

Builders == {"build_picamera_pipeline", "build_usb_camera_pipeline"}

\* C17: detect_camera_type returns PI_CAMERA whenever rpicam-vid or
\* libcamera-vid is found, whatever /dev holds; USB_CAMERA only when neither
\* is found and a video* character device exists; NONE otherwise; and with
\* both CLIs installed the Pi builder runs rpicam-vid.
C17_DetectionPriority ==
    /\ called = "detect_camera_type" =>
          out.value =
              IF "rpicam-vid" \in seen \/ "libcamera-vid" \in seen
              THEN "PI_CAMERA"
              ELSE IF devnodes["video0"] = "char" THEN "USB_CAMERA"
              ELSE "NONE"
    /\ (called = "build_picamera_pipeline" /\ PiTools \subseteq seen) =>
          out.ok /\ out.value[1][1] = "rpicam-vid"

C17_Witness ==
    /\ called = "detect_camera_type"
    /\ PiTools \subseteq seen
    /\ devnodes["video0"] = "char"
    /\ out.value = "PI_CAMERA"

C19_MissingToolFailsBeforeSpawn ==
    (/\ called = "_launch_pipeline"
     /\ \/ camera_type = "NONE"
        \/ "gst-launch-1.0" \notin seen
        \/ camera_type = "PI_CAMERA" /\ seen \cap PiTools = {}) =>
        ~out.ok /\ out.spawned = 0

\* C20: build_usb_camera_pipeline returns one command, which holds
\* device=<device>, the caps of the given width, height and fps,
\* bitrate=<bitrate>, and ends with udpsink host=<target_ip>
\* port=<target_port>.
C20_UsbCommand ==
    called = "build_usb_camera_pipeline" =>
        LET cmd == out.value
            n == Len(cmd)
        IN  /\ out.ok
            /\ cmd[1] = "gst-launch-1.0"
            /\ \E i \in 1..n : cmd[i] = "device=" \o params.device
            /\ \E i \in 1..n :
                  cmd[i] = "video/x-raw,width=" \o ToString(params.width)
                           \o ",height=" \o ToString(params.height)
                           \o ",framerate=" \o ToString(params.fps) \o "/1"
            /\ \E i \in 1..n : cmd[i] = "bitrate=" \o ToString(params.bitrate)
            /\ cmd[n - 2] = "udpsink"
            /\ cmd[n - 1] = "host=" \o params.target_ip
            /\ cmd[n] = "port=" \o ToString(params.target_port)

C20_Witness ==
    /\ called = "build_usb_camera_pipeline"
    /\ out.ok
    /\ params = [target_ip |-> "10.0.0.5", target_port |-> DEFAULT_PORT,
                 device |-> "/dev/video0", width |-> 640, height |-> 480,
                 fps |-> DEFAULT_FPS, bitrate |-> 400]

\* The last n elements of a command
LastN(cmd, n) == SubSeq(cmd, Len(cmd) - n + 1, Len(cmd))

\* Option opt is followed by value val in command cmd.
HasOption(cmd, opt, val) ==
    \E i \in 1..(Len(cmd) - 1) : cmd[i] = opt /\ cmd[i + 1] = val

\* C21: build_picamera_pipeline returns exactly two commands; stage 1 has
\* -t 0 and --output -; the first pipeline element of stage 2 is fdsrc and
\* stage 2 ends with the rtph264pay ... udpsink host= port= tail of the USB
\* pipeline for the same target.
C21_PiCommands ==
    (called = "build_picamera_pipeline" /\ out.ok) =>
        LET usb == build_usb_camera_pipeline(params.target_ip,
                       params.target_port, params.device, params.width,
                       params.height, params.fps, params.bitrate).value
        IN  /\ Len(out.value) = 2
            /\ HasOption(out.value[1], "-t", "0")
            /\ HasOption(out.value[1], "--output", "-")
            /\ SubSeq(out.value[2], 1, 3) = <<"gst-launch-1.0", "-e", "fdsrc">>
            /\ LastN(out.value[2], 7) = LastN(usb, 7)
            /\ LastN(usb, 7)[1] = "rtph264pay"

C21_Witness ==
    /\ called = "build_picamera_pipeline"
    /\ out.ok
    /\ out.value[1][1] = "libcamera-vid"
    /\ params.target_ip = "10.0.0.5"
    /\ params.width = 640

\* The positions of out.steps at which a stage is spawned, a handle closed
Spawns == {i \in 1..Len(out.steps) : out.steps[i].call = "Popen"}
Closes == {i \in 1..Len(out.steps) : out.steps[i].call = "close"}

\* C25: in a two-stage launch the capture stage is spawned first and the
\* streaming stage second, the streaming stage reads the capture stage's
\* stdout, and on every successful launch the supervisor closes its copy of
\* that handle, after the streaming stage was spawned.
C25_TwoStageOrder ==
    (called = "_launch_pipeline" /\ camera_type = "PI_CAMERA") =>
        /\ \A j \in Spawns : out.steps[j].of = "gst-launch-1.0" =>
               /\ j = 2
               /\ out.steps[1].call = "Popen"
               /\ out.steps[1].of \in PiTools
               /\ out.steps[1].stdout = "PIPE"
               /\ out.steps[j].stdin = "stdout of " \o out.steps[1].of
        /\ \A k \in Closes :
               /\ k = 3
               /\ out.steps[k].of = "stdout of " \o out.steps[1].of
        /\ out.ok => (Spawns = {1, 2} /\ Closes = {3})

C25_Witness ==
    /\ called = "_launch_pipeline"
    /\ camera_type = "PI_CAMERA"
    /\ out.ok
    /\ out.spawned = 2
    /\ Len(out.steps) = 3

----------------------------------------------------------------------------
\* A watchdog is in its monitoring loop, outside _launch_pipeline.
Monitoring(t) == pc[t] \in {"wd_sleep", "wd_top", "wd_diag", "wd_backoff"}

\* A watchdog is inside the _launch_pipeline call of its reconnect path.
Relaunching ==
    \E t \in Watchdogs :
        pc[t] \in {"term_next", "term_wait", "term_killwait", "spawn", "spawn2"}

\* Every supervised process is dead while recovery is allowed.
DownAndRecoverable ==
    /\ ~is_streaming
    /\ ~stop_event
    /\ auto_reconnect
    /\ reconnect_attempts < MAX_RECONNECT_ATTEMPTS

\* C24: when all supervised processes are dead, stop was not requested,
\* auto_reconnect is on and fewer than 5 relaunches were made, a running
\* watchdog eventually relaunches the pipeline (unless a stop is requested or
\* the caller brings the pipeline up first), and the attempt counter goes up
\* by exactly one, in the same loop iteration, before each relaunch.
C24_WatchdogRecovers ==
    /\ \A t \in Watchdogs :
           (Monitoring(t) /\ DownAndRecoverable)
               ~> (Relaunching \/ stop_event \/ is_streaming)
    /\ [][/\ \A t \in Watchdogs :
               (pc[t] # "wd_backoff" /\ pc'[t] = "wd_backoff") =>
                   /\ pc[t] = "wd_diag"
                   /\ reconnect_attempts' = reconnect_attempts + 1
          /\ relaunches' = relaunches + 1 =>
               /\ \E t \in Watchdogs :
                      pc[t] = "wd_backoff" /\ pc'[t] = "term_next"
               /\ reconnect_attempts' = reconnect_attempts
          /\ reconnect_attempts' \notin {reconnect_attempts, 0} =>
               /\ reconnect_attempts' = reconnect_attempts + 1
               /\ \E t \in Watchdogs : pc[t] = "wd_diag"]_vars

C24_Witness ==
    /\ auto_reconnect
    /\ ~stop_event
    /\ ~is_streaming
    /\ relaunches = 2
    /\ reconnect_attempts = 2
    /\ \E t \in Watchdogs : pc[t] = "term_next"

----------------------------------------------------------------------------
\* C28: detect_dune is total over the sensor outcomes: it returns for every
\* combination of reads succeeding or raising, a failed read leaves the
\* default (distance infinite, obstacle false, camera confidence 0), and
\* dune_confidence is 0.7 * camera confidence, plus 0.25 when the distance is
\* below the threshold, plus 0.15 when an obstacle is seen, clamped to [0, 1].
C28_DetectDuneTotal ==
    detection.called =>
        LET r == detection.reads
            res == detection.result.value
            analysed == IF r.camera.ok THEN analyze_frame(r.camera.value)
                        ELSE Failed(0)
            camera_confidence ==
                IF detection.use_camera /\ r.camera.ok /\ analysed.ok
                THEN analysed.value ELSE 0
            near == r.ultrasonic.ok
                        /\ r.ultrasonic.value < detection.distance_threshold
            sum == (7 * camera_confidence) \div 10
                       + (IF near THEN 250 ELSE 0)
                       + (IF r.ir.ok /\ r.ir.value THEN 150 ELSE 0)
        IN  /\ detection.result.ok
            /\ r.ultrasonic.ok => res.distance = Finite(r.ultrasonic.value)
            /\ ~r.ultrasonic.ok => ~res.distance.finite
            /\ res.obstacle = (r.ir.ok /\ r.ir.value)
            /\ res.dune_confidence =
                   (IF sum < 0 THEN 0 ELSE IF sum > Milli THEN Milli ELSE sum)

C28_Witness ==
    /\ detection.called
    /\ ~detection.reads.ultrasonic.ok
    /\ ~detection.reads.ir.ok
    /\ ~detection.reads.camera.ok
    /\ detection.result.ok
    /\ detection.result.value.dune_confidence = 0

----------------------------------------------------------------------------
\* A request was answered by the view function of its route.
Answered(r, route) ==
    /\ requests[r].phase = "view"
    /\ requests[r].route = route
    /\ requests'[r].phase = "teardown"

\* C22: the stream parameters are read-only once a session has started:
\* while the manager is streaming, its target is the one the session was
\* launched with, the running pipeline sends to that target, and a status
\* that reports streaming reports that target.
C22_TargetFixedWhileStreaming ==
    [][/\ session'.up =>
             /\ params'.target_ip = session'.launched_ip
             /\ params'.target_port = session'.launched_port
             /\ session'.ip = session'.launched_ip
             /\ session'.port = session'.launched_port
       /\ \A r \in Slots :
             (Answered(r, "/stream/status") /\ requests'[r].response.streaming)
                 => /\ requests'[r].response.target_ip = session.launched_ip
                    /\ requests'[r].response.target_port = session.launched_port
      ]_vars

\* C23: the HTTP endpoints only translate to facade calls: while requests
\* are handled the pipeline goes down only by the view of POST /stream/stop,
\* and the frame grabber is never stopped.
C23_RequestsKeepPipeline ==
    [][/\ (session.up /\ ~session'.up /\ requests' # requests)
             => \E r \in Slots : Answered(r, "/stream/stop")
       /\ running => running'
      ]_vars

\* C27: the latest-frame buffer is read and written only by the thread that
\* holds the lock; a chunk is yielded only after a first frame was stored and
\* wraps one of the frames stored; a buffer that holds a frame never goes
\* back to None.
C27_FrameBufferGuarded ==
    /\ [](\A t \in GrabberThreads : gpc[t] = "locked" => lock = t)
    /\ [](\A c \in Clients :
             chunk[c].sent => (latest # 0 /\ chunk[c].frame \in 1..latest))
    /\ [][latest # 0 => latest' # 0]_vars

C27_Witness ==
    /\ latest = 3
    /\ chunk[1] = [sent |-> TRUE, frame |-> 1]
    /\ chunk[2] = [sent |-> TRUE, frame |-> 3]
    /\ gpc[Capture] = "loop"
    /\ gpc[1] = "locked"

----------------------------------------------------------------------------
\* C26: _terminate_processes escalates per handle.  Only a handle that is
\* alive is sent SIGINT and waited for; kill() follows only the grace wait
\* of the same handle, which is still alive; and when the function returns
\* the bound handle list is empty.
C26_TerminateEscalates ==
    [][\A t \in Threads :
          /\ (pc[t] # "term_wait" /\ pc'[t] = "term_wait") =>
                /\ pc[t] = "term_next"
                /\ Alive(itList[t], itIdx'[t])
                /\ \A i \in itIdx[t]..(itIdx'[t] - 1) : ~Alive(itList[t], i)
          /\ (pc[t] # "term_killwait" /\ pc'[t] = "term_killwait") =>
                /\ pc[t] = "term_wait"
                /\ itIdx'[t] = itIdx[t]
                /\ Alive(itList[t], itIdx[t])
          /\ (pc[t] = "term_next" /\ pc'[t] \notin {"term_next", "term_wait"}) =>
                ListLen(processes)' = 0]_vars

C26_Witness ==
    /\ camera_type = "PI_CAMERA"
    /\ pc[Caller] = "term_killwait"
    /\ itIdx[Caller] = 2
    /\ pstate[itList[Caller]][1] = "exited"
    /\ Alive(itList[Caller], 2)

\* The watchdog threads that are alive
LiveWatchdogs == {t \in Watchdogs : pc[t] \notin {"unborn", "done"}}

\* C29: at most one watchdog thread is alive at any time.
C29_OneWatchdog == Cardinality(LiveWatchdogs) <= 1

\* C30: a launch that fails leaves no orphan: when the first start_stream of
\* a manager has raised, every process that is alive is in the handle list.
C30_FailedLaunchLeavesNoOrphan ==
    (pc[Caller] = "idle" /\ op = "start" /\ ret = "err" /\ nextThread = 0) =>
        \A l \in Launches, s \in 1..2 :
            Alive(l, s) => (l = processes /\ ~cleared[l])

----------------------------------------------------------------------------
\* The _launch_pipeline call of watchdog t ends in this step with an
\* exception, which the except clause of _watchdog catches.
RelaunchFails(t) ==
    /\ pc[t] \in {"term_killwait", "spawn", "spawn2"}
    /\ pc'[t] \in {"wd_sleep", "done"}
    /\ processes' = processes
    /\ nextLaunch' = nextLaunch

Exited(t) == pc[t] \in {"unborn", "done"}

\* C32: the watchdog always terminates: once the stop signal is set, every
\* watchdog thread eventually exits its loop; and when the caller makes no
\* further call and the pipeline is dead again and again, every watchdog
\* thread eventually exits.
C32_WatchdogTerminates ==
    /\ \A t \in Watchdogs : stop_event ~> Exited(t)
    /\ \A t \in Watchdogs :
           ([]<>(~is_streaming) /\ <>[](pc[Caller] = "idle"))
               => <>[]Exited(t)

\* The manager the stop_stream call in progress was made on: never used, or
\* its last call was a start_stream that failed, or a stop_stream that
\* returned.
CalledWhenIdle ==
    prior \in {<<"none", "none">>, <<"start", "err">>, <<"stop", "ok">>}

\* The caller leaves its public call in this step.
CallEnds == pc[Caller] # "idle" /\ pc'[Caller] = "idle"

\* C33: stop_stream called on a manager that never started, whose start_stream
\* failed or that was already stopped returns without raising and leaves the
\* manager idle (empty handle list, no watchdog thread, not streaming), and
\* no step of the call launches a pipeline.
C33_StopSafeWhenIdle ==
    [][(op = "stop" /\ CalledWhenIdle) =>
          /\ CallEnds =>
                /\ ret' = "ok"
                /\ ListLen(processes)' = 0
                /\ watchdog_thread' = 0
                /\ ~is_streaming'
          /\ pc'[Caller] # pc[Caller] => nextLaunch' = nextLaunch]_vars

----------------------------------------------------------------------------
\* A pass of the rover loop that had no camera reading: the camera was
\* disabled, or capture_frame raised.
WithoutCamera ==
    /\ detection.called
    /\ ~detection.use_camera \/ ~detection.reads.camera.ok

\* C34: with the camera disabled or the camera read failing, the confidence
\* of detect_dune is at most 0.40 (0.25 for a near distance plus 0.15 for the
\* obstacle flag), below the 0.6 of take_action, so the rover loop does not
\* take the "Dune likely" branch.
C34_NoDuneWithoutCamera ==
    WithoutCamera =>
        /\ detection.result.ok
        /\ detection.result.value.dune_confidence <= 400
        /\ detection.action = "No dune"

C34_Witness ==
    /\ WithoutCamera
    /\ detection.reads.camera.ok
    /\ detection.result.value.dune_confidence = 400
    /\ detection.action = "No dune"

----------------------------------------------------------------------------
\* The capture threads that are alive
LiveCaptures == {t \in CaptureThreads : AliveCapture(t)}

\* C35: at most one capture thread is alive per FrameGrabber, also after a
\* stop() that was followed by a start().
C35_OneCaptureThread == Cardinality(LiveCaptures) <= 1

\* A thread is inside a read of the capture device: a capture thread in the
\* read of _capture_loop, the main thread in the read of get_latest_raw.
ReadingDevice(t) ==
    IF t = Main THEN gpc[t] = "locked" ELSE gpc[t] = "read"

\* C36: in integrated_sensors the capture device is read by at most one
\* thread at a time: get_latest_raw of the sensor loop does not overlap a
\* device read of the capture loop.
C36_OneDeviceReader ==
    Cardinality({t \in CaptureThreads \cup {Main} : ReadingDevice(t)}) <= 1

====
